---- MODULE Spec2Model ----
(***************************************************************************)
(* Model of Splunk-CSV-MITRE.py: a CSV of rule-to-technique mappings is    *)
(* parsed, aggregated into technique / tactic count tables, turned into a  *)
(* MITRE ATT&CK Navigator layer and written to disk.                       *)
(*                                                                         *)
(* A string is a sequence of atoms.  An atom is either one separator      *)
(* character (" ", "\n", ",", ".", "_") or a word that contains no        *)
(* separator character ("T1", "001", "title", ".csv" as a file            *)
(* extension).  Formatted numbers are sequences of digit atoms.  strip,   *)
(* split and join work atom by atom, as the Python methods work character *)
(* by character.                                                           *)
(***************************************************************************)
EXTENDS Integers, Sequences, FiniteSets, TLC

VARIABLES pc, mode, csv_files, fi, exit_code, called, reported,
          header_row, reader, headers, title_idx, tech_idx, subtech_idx,
          tactics_count, techniques_count, rules_with_mappings,
          max_score, layer_json, stats, fsDirs, fsFiles

vars == <<pc, mode, csv_files, fi, exit_code, called, reported,
          header_row, reader, headers, title_idx, tech_idx, subtech_idx,
          tactics_count, techniques_count, rules_with_mappings,
          max_score, layer_json, stats, fsDirs, fsFiles>>

----------------------------------------------------------------------------
(* Bounds of the model *)

MaxRows == 2
MaxFiles == 2

----------------------------------------------------------------------------
(* String primitives (Python str methods) *)

Whitespace == {" ", "\n"}

RECURSIVE lstrip(_)
lstrip(s) ==
    IF s # <<>> /\ Head(s) \in Whitespace THEN lstrip(Tail(s)) ELSE s

RECURSIVE rstrip(_)
rstrip(s) ==
    IF s # <<>> /\ s[Len(s)] \in Whitespace
    THEN rstrip(SubSeq(s, 1, Len(s) - 1))
    ELSE s

strip(s) == rstrip(lstrip(s))

RECURSIVE SplitAcc(_, _, _, _)
SplitAcc(s, sep, cur, acc) ==
    IF s = <<>> THEN Append(acc, cur)
    ELSE IF Head(s) = sep
         THEN SplitAcc(Tail(s), sep, <<>>, Append(acc, cur))
         ELSE SplitAcc(Tail(s), sep, Append(cur, Head(s)), acc)

split(s, sep) == SplitAcc(s, sep, <<>>, <<>>)

RECURSIVE join(_, _)
join(sep, list) ==
    IF list = <<>> THEN <<>>
    ELSE IF Len(list) = 1 THEN list[1]
    ELSE list[1] \o <<sep>> \o join(sep, Tail(list))

Contains(s, x) == \E i \in 1..Len(s) : s[i] = x

IndexOf(s, x) ==
    IF Contains(s, x)
    THEN (CHOOSE i \in 1..Len(s) : s[i] = x /\ \A j \in 1..(i - 1) : s[j] # x) - 1
    ELSE -1

Min(a, b) == IF a <= b THEN a ELSE b

Max(a, b) == IF a >= b THEN a ELSE b

Digits == <<"0", "1", "2", "3", "4", "5", "6", "7", "8", "9",
            "a", "b", "c", "d", "e", "f">>

RECURSIVE ToBase(_, _)
ToBase(n, base) ==
    IF n < base THEN <<Digits[n + 1]>>
    ELSE Append(ToBase(n \div base, base), Digits[(n % base) + 1])

str(n) == ToBase(n, 10)

Format02x(n) ==
    LET h == ToBase(n, 16)
    IN  IF Len(h) < 2 THEN <<"0">> \o h ELSE h

----------------------------------------------------------------------------
(* dict with insertion order: a sequence of [key, val] *)

DictHas(d, k) == \E i \in 1..Len(d) : d[i].key = k

DictGet(d, k, default) ==
    IF DictHas(d, k)
    THEN d[CHOOSE i \in 1..Len(d) : d[i].key = k].val
    ELSE default

DictSet(d, k, v) ==
    IF DictHas(d, k)
    THEN [i \in 1..Len(d) |-> IF d[i].key = k THEN [key |-> k, val |-> v] ELSE d[i]]
    ELSE Append(d, [key |-> k, val |-> v])

DictValues(d) == [i \in 1..Len(d) |-> d[i].val]

RECURSIVE MaxOf(_)
MaxOf(s) == IF Len(s) = 1 THEN s[1] ELSE Max(s[1], MaxOf(Tail(s)))

RECURSIVE SumOf(_)
SumOf(s) == IF s = <<>> THEN 0 ELSE s[1] + SumOf(Tail(s))

----------------------------------------------------------------------------
(* Paths *)

Extensions == {".csv"}

splitext_base(name) ==
    IF name # <<>> /\ name[Len(name)] \in Extensions
    THEN SubSeq(name, 1, Len(name) - 1)
    ELSE name

get_subfolder_name(csv_path) ==
    IF Contains(csv_path, "_") THEN split(csv_path, "_")[1] ELSE <<"default">>

base_dir == << <<"MITRE">> >>

OutputDir(subfolder) ==
    IF subfolder # <<>> THEN Append(base_dir, subfolder) ELSE base_dir

----------------------------------------------------------------------------
(* Row parsing and aggregation: process_mitre_data, lines 52-100 *)

required_columns == << <<"title">>, <<"techniques">>, <<"subtechniques">> >>

StripAll(cells) == [i \in 1..Len(cells) |-> strip(cells[i])]

NotIn(hs, col) == ~Contains(hs, col)

missing_columns(hs) == SelectSeq(required_columns, LAMBDA col : NotIn(hs, col))

NonEmpty(t) == t # <<>>

(* variant: empty tokens are kept *)
TokensKeepEmpty(cell) == StripAll(split(cell, ","))

Tokens(cell) == SelectSeq(StripAll(split(cell, ",")), NonEmpty)

RowLongEnough(row, ti, te, su) == Len(row) >= Max(ti + 1, Max(te + 1, su + 1))

all_techniques(techniques, subtechniques) ==
    (IF techniques # <<>> THEN Tokens(techniques) ELSE <<>>)
    \o (IF subtechniques # <<>> THEN Tokens(subtechniques) ELSE <<>>)

(* variant: a sub-technique is its own tactic bucket *)
TacticKeySelf(technique) == technique

TacticKey(technique) ==
    IF Contains(technique, ".") THEN split(technique, ".")[1] ELSE technique

CountTechnique(acc, technique) ==
    [techniques_count |->
        DictSet(acc.techniques_count, technique,
                DictGet(acc.techniques_count, technique, 0) + 1),
     tactics_count |->
        DictSet(acc.tactics_count, TacticKey(technique),
                DictGet(acc.tactics_count, TacticKey(technique), 0) + 1),
     rules_with_mappings |-> acc.rules_with_mappings]

RECURSIVE CountTechniques(_, _)
CountTechniques(acc, techs) ==
    IF techs = <<>> THEN acc
    ELSE CountTechniques(CountTechnique(acc, Head(techs)), Tail(techs))

RetainRule(acc, rule_name, techs) ==
    [acc EXCEPT !.rules_with_mappings =
        Append(@, [name |-> rule_name, techniques |-> techs])]

ProcessRow(acc, row, ti, te, su) ==
    IF ~RowLongEnough(row, ti, te, su) THEN acc
    ELSE LET rule_name == strip(row[ti + 1])
             techniques == strip(row[te + 1])
             subtechniques == strip(row[su + 1])
             techs == all_techniques(techniques, subtechniques)
         IN  IF techniques = <<>> /\ subtechniques = <<>> THEN acc
             ELSE IF techs = <<>> THEN acc
             ELSE CountTechniques(RetainRule(acc, rule_name, techs), techs)

----------------------------------------------------------------------------
(* Layer construction: process_mitre_data, lines 103-152 *)

(* variant: no default for an empty table *)
MaxScoreZero(tc) == IF tc # <<>> THEN MaxOf(DictValues(tc)) ELSE 0

MaxScore(tc) == IF tc # <<>> THEN MaxOf(DictValues(tc)) ELSE 1

(* variant: the red byte is not clamped *)
ColorUnclamped(count) == <<"#">> \o Format02x(count * 50) \o <<"3", "3", "3", "3">>

Color(count) == <<"#">> \o Format02x(Min(255, count * 50)) \o <<"3", "3", "3", "3">>

(* variant: only the first technique of a rule is looked at *)
UsesTechniqueFirst(rule, tid) == rule.techniques[1] = tid

UsesTechnique(rule, tid) == Contains(rule.techniques, tid)

RuleNames(rules) == [i \in 1..Len(rules) |-> rules[i].name]

RulesUsingTechnique(rules, tid) ==
    join("\n", RuleNames(SelectSeq(rules, LAMBDA rule : UsesTechnique(rule, tid))))

TechniqueEntry(tid, count, rules) ==
    [techniqueID |-> tid,
     score |-> count,
     color |-> Color(count),
     enabled |-> TRUE,
     metadata |-> <<[name |-> "Rules Using Technique",
                     value |-> RulesUsingTechnique(rules, tid)]>>,
     showSubtechniques |-> TRUE]

BuildLayer(base_name, tc, rules, maxv) ==
    [name |-> <<"Splunk Coverage - ">> \o base_name,
     versions |-> [attack |-> "14", navigator |-> "4.8.2", layer |-> "4.4"],
     domain |-> "enterprise-attack",
     description |-> <<"Coverage of ">> \o str(Len(tc))
                     \o <<" MITRE ATT&CK techniques in Splunk rules">>,
     rules_analyzed |-> str(Len(rules)),
     techniques |-> [i \in 1..Len(tc) |-> TechniqueEntry(tc[i].key, tc[i].val, rules)],
     gradient |-> [colors |-> <<"#ffffff", "#ff6666">>,
                   minValue |-> 0,
                   maxValue |-> maxv]]

(* sorted(items, key=count, reverse=True): stable, ties keep dict order *)
RECURSIVE InsertDesc(_, _)
InsertDesc(sorted, item) ==
    IF sorted = <<>> THEN <<item>>
    ELSE IF Head(sorted).val >= item.val
         THEN <<Head(sorted)>> \o InsertDesc(Tail(sorted), item)
         ELSE <<item>> \o sorted

RECURSIVE SortDesc(_)
SortDesc(items) ==
    IF items = <<>> THEN <<>>
    ELSE InsertDesc(SortDesc(SubSeq(items, 1, Len(items) - 1)), items[Len(items)])

Statistics(rules, tc, ta) ==
    [rules |-> Len(rules),
     techniques |-> Len(tc),
     tactics |-> Len(ta),
     top5 |-> SubSeq(SortDesc(tc), 1, Min(5, Len(tc)))]

----------------------------------------------------------------------------
(* Inputs: what the file system and the CSV reader can hand to the program *)

(* basename of the i-th file found by glob('manual/*.csv') *)
FileName(i) ==
    (IF i % 3 = 0 THEN <<"_">> ELSE IF i % 2 = 0 THEN <<"x", "_">> ELSE <<>>)
    \o [k \in 1..i |-> "f"] \o <<".csv">>

(* values of --file *)
ArgsFiles == { <<"SplunkRules", ".csv">>, <<"x", "_", "rules">> }

HeaderRows ==
    { << <<"title">>, <<"techniques">>, <<"subtechniques">> >>,
      << <<"subtechniques", " ">>, <<" ", "title">>, <<"\n", "techniques", " ">> >>,
      << <<"description">>, <<"title">>, <<"techniques">>, <<"subtechniques">> >>,
      << <<"title">>, <<"techniques">> >>,
      << <<"Title">>, <<"techniques">>, <<"subtechniques">> >>,
      << <<"title">>, <<"sub", " ", "techniques">>, <<"techniques">> >>,
      << <<"description">> >>,
      << >> }

Rows ==
    { << <<"A">>, <<"T1">>, <<>> >>,
      << <<" ", "B", " ">>, <<" ", "T1", " ", ",", " ", "T2", " ">>, <<"T1", ".", "001">> >>,
      << <<"A", "\n", "B">>, <<"T1", ",", ",", "T1", ",", "T1">>, <<"T1", ",", "T1">> >>,
      << <<>>, <<",", " ">>, <<" ">> >>,
      << <<"A">>, <<>>, <<"T2", ".", "001", ".", "002", ",", ".", "001">> >>,
      << <<"T2">>, <<"T1">>, <<"T1", ",", "T2", ".", "001">> >>,
      << <<"D">>, <<"B">>, <<"T2">>, <<"T1", ".", "001">> >> }

----------------------------------------------------------------------------
(* State after construction: the interpreter is about to run main() *)

Init ==
    /\ pc = "start"
    /\ mode = "unset"
    /\ csv_files = <<>>
    /\ fi = 0
    /\ exit_code = -1
    /\ called = {}
    /\ reported = {}
    /\ header_row = <<>>
    /\ reader = <<>>
    /\ headers = <<>>
    /\ title_idx = -1
    /\ tech_idx = -1
    /\ subtech_idx = -1
    /\ tactics_count = <<>>
    /\ techniques_count = <<>>
    /\ rules_with_mappings = <<>>
    /\ max_score = -1
    /\ layer_json = <<>>
    /\ stats = <<>>
    /\ fsDirs = {}
    /\ fsFiles = {}

locals == <<header_row, reader, headers, title_idx, tech_idx, subtech_idx, tactics_count,
            techniques_count, rules_with_mappings, max_score, layer_json, stats>>

fs == <<fsDirs, fsFiles>>

(* process_mitre_data returns to its caller, which moves to the next file *)
ReturnToMain ==
    /\ pc' = "main"
    /\ fi' = fi + 1

(* lines 171-172: the exception is printed and swallowed *)
Caught ==
    /\ reported' = reported \cup {fi}
    /\ ReturnToMain

----------------------------------------------------------------------------
(* main, lines 190-204 *)

MainFile ==
    /\ pc = "start"
    /\ \E f \in ArgsFiles : csv_files' = <<f>>
    /\ mode' = "file"
    /\ fi' = 1
    /\ pc' = "main"
    /\ UNCHANGED <<exit_code, called, reported, locals, fs>>

MainManual ==
    /\ pc = "start"
    /\ \E n \in 1..MaxFiles : csv_files' = [i \in 1..n |-> FileName(i)]
    /\ mode' = "manual"
    /\ fi' = 1
    /\ pc' = "main"
    /\ UNCHANGED <<exit_code, called, reported, locals, fs>>

(* get_csv_files_from_manual raises: no manual folder, or no CSV in it *)
MainManualNotFound ==
    /\ pc = "start"
    /\ mode' = "manual"
    /\ pc' = "done"
    /\ exit_code' = 1
    /\ UNCHANGED <<csv_files, fi, called, reported, locals, fs>>

(* the interpreter exits: no frame of process_mitre_data is left *)
FramesReleased ==
    /\ header_row' = <<>>
    /\ reader' = <<>>
    /\ headers' = <<>>
    /\ title_idx' = -1
    /\ tech_idx' = -1
    /\ subtech_idx' = -1
    /\ tactics_count' = <<>>
    /\ techniques_count' = <<>>
    /\ rules_with_mappings' = <<>>
    /\ max_score' = -1
    /\ layer_json' = <<>>
    /\ stats' = <<>>

MainReturn ==
    /\ pc = "main"
    /\ fi > Len(csv_files)
    /\ pc' = "done"
    /\ exit_code' = 0
    /\ FramesReleased
    /\ UNCHANGED <<mode, csv_files, fi, called, reported, fs>>

----------------------------------------------------------------------------
(* process_mitre_data *)

(* variant: the table is module-level and keeps the previous file's counts *)
StaleDict == techniques_count

EmptyDict == <<>>

EmptyList == <<>>

(* lines 39-47, the file exists *)
ProcessStart ==
    /\ pc = "main"
    /\ fi <= Len(csv_files)
    /\ called' = called \cup {fi}
    /\ tactics_count' = EmptyDict
    /\ techniques_count' = EmptyDict
    /\ rules_with_mappings' = EmptyList
    /\ header_row' = <<>>
    /\ reader' = <<>>
    /\ headers' = <<>>
    /\ title_idx' = -1
    /\ tech_idx' = -1
    /\ subtech_idx' = -1
    /\ max_score' = -1
    /\ layer_json' = <<>>
    /\ stats' = <<>>
    /\ pc' = "header"
    /\ UNCHANGED <<mode, csv_files, fi, exit_code, reported, fs>>

(* lines 41-42 raise outside the try; main's except returns 1 *)
ProcessFileNotFound ==
    /\ pc = "main"
    /\ fi <= Len(csv_files)
    /\ called' = called \cup {fi}
    /\ pc' = "done"
    /\ exit_code' = 1
    /\ FramesReleased
    /\ UNCHANGED <<mode, csv_files, fi, reported, fs>>

(* line 50 or line 52 raises: unreadable file, undecodable bytes, no header row *)
OpenFails ==
    /\ pc = "header"
    /\ Caught
    /\ UNCHANGED <<mode, csv_files, exit_code, called, locals, fs>>

(* variant: only the title column is required *)
HeaderOKTitleOnly(hs) == Contains(hs, <<"title">>)

HeaderOK(hs) == missing_columns(hs) = <<>>

(* lines 50-63 *)
ReadHeader ==
    /\ pc = "header"
    /\ \E h \in HeaderRows :
        /\ header_row' = h
        /\ headers' = StripAll(h)
        /\ IF HeaderOK(headers')
           THEN /\ title_idx' = IndexOf(headers', <<"title">>)
                /\ tech_idx' = IndexOf(headers', <<"techniques">>)
                /\ subtech_idx' = IndexOf(headers', <<"subtechniques">>)
                /\ pc' = "rows"
                /\ UNCHANGED <<fi, reported>>
           ELSE /\ Caught
                /\ UNCHANGED <<title_idx, tech_idx, subtech_idx>>
    /\ UNCHANGED <<mode, csv_files, exit_code, called, reader, tactics_count,
                   techniques_count, rules_with_mappings, max_score, layer_json,
                   stats, fs>>

Counters == [techniques_count |-> techniques_count,
             tactics_count |-> tactics_count,
             rules_with_mappings |-> rules_with_mappings]

(* lines 65-100, one iteration of the loop *)
ReadRow ==
    /\ pc = "rows"
    /\ Len(reader) < MaxRows
    /\ \E row \in Rows :
        LET acc == ProcessRow(Counters, row, title_idx, tech_idx, subtech_idx)
        IN  /\ reader' = Append(reader, row)
            /\ techniques_count' = acc.techniques_count
            /\ tactics_count' = acc.tactics_count
            /\ rules_with_mappings' = acc.rules_with_mappings
    /\ UNCHANGED <<pc, mode, csv_files, fi, exit_code, called, reported, header_row, headers,
                   title_idx, tech_idx, subtech_idx, max_score, layer_json, stats, fs>>

(* line 65 raises while iterating: csv.Error, UnicodeDecodeError *)
RowFails ==
    /\ pc = "rows"
    /\ Caught
    /\ UNCHANGED <<mode, csv_files, exit_code, called, locals, fs>>

base_name == splitext_base(csv_files[fi])

subfolder == get_subfolder_name(csv_files[fi])

output_dir == OutputDir(subfolder)

(* ensure_output_directory, lines 26-37: the directories it creates *)
ensure_output_directory(sub) ==
    fsDirs \cup {base_dir} \cup (IF sub # <<>> THEN {Append(base_dir, sub)} ELSE {})

(* line 65 ends the loop, line 103 computes max_score *)
EndOfRows ==
    /\ pc = "rows"
    /\ max_score' = MaxScore(techniques_count)
    /\ pc' = "gen"
    /\ UNCHANGED <<mode, csv_files, fi, exit_code, called, reported, header_row,
                   reader, headers, title_idx, tech_idx, subtech_idx, tactics_count,
                   techniques_count, rules_with_mappings, layer_json, stats, fs>>

(* lines 104-108: names and output directory *)
PrepareOutput ==
    /\ pc = "gen"
    /\ fsDirs' = ensure_output_directory(subfolder)
    /\ pc' = "build"
    /\ UNCHANGED <<mode, csv_files, fi, exit_code, called, reported, header_row,
                   reader, headers, title_idx, tech_idx, subtech_idx, tactics_count,
                   techniques_count, rules_with_mappings, max_score, layer_json,
                   stats, fsFiles>>

(* line 30 raises: the base directory cannot be created *)
MakeBaseDirFails ==
    /\ pc = "gen"
    /\ base_dir \notin fsDirs
    /\ Caught
    /\ UNCHANGED <<mode, csv_files, exit_code, called, locals, fs>>

(* line 35 raises: the subfolder cannot be created, the base directory exists *)
MakeSubfolderFails ==
    /\ pc = "gen"
    /\ subfolder # <<>>
    /\ output_dir \notin fsDirs
    /\ fsDirs' = fsDirs \cup {base_dir}
    /\ Caught
    /\ UNCHANGED <<mode, csv_files, exit_code, called, locals, fsFiles>>

(* lines 110-152 *)
BuildLayerJson ==
    /\ pc = "build"
    /\ layer_json' = <<BuildLayer(base_name, techniques_count, rules_with_mappings,
                                  max_score)>>
    /\ pc' = "write"
    /\ UNCHANGED <<mode, csv_files, fi, exit_code, called, reported, header_row, reader, headers,
                   title_idx, tech_idx, subtech_idx, tactics_count, techniques_count,
                   rules_with_mappings, max_score, stats, fs>>

layer_filename == [dir |-> output_dir, base |-> base_name]

LayerBuilt == layer_json # <<>>

(* variant: the layer file is created as soon as its name is known *)
WriteLayerEarly ==
    /\ pc \in {"build", "write"}
    /\ fsFiles' = fsFiles \cup {[path |-> layer_filename, content |-> "complete"]}
    /\ stats' = <<Statistics(rules_with_mappings, techniques_count, tactics_count)>>
    /\ ReturnToMain
    /\ UNCHANGED <<mode, csv_files, exit_code, called, reported, header_row, reader,
                   headers, title_idx, tech_idx, subtech_idx, tactics_count,
                   techniques_count, rules_with_mappings, max_score, layer_json, fsDirs>>

(* lines 154-169: the layer is written, the statistics are printed *)
WriteLayer ==
    /\ pc = "write"
    /\ fsFiles' = fsFiles \cup {[path |-> layer_filename, content |-> "complete"]}
    /\ stats' = <<Statistics(rules_with_mappings, techniques_count, tactics_count)>>
    /\ ReturnToMain
    /\ UNCHANGED <<mode, csv_files, exit_code, called, reported, header_row, reader, headers,
                   title_idx, tech_idx, subtech_idx, tactics_count, techniques_count,
                   rules_with_mappings, max_score, layer_json, fsDirs>>

(* line 154 raises: the layer file cannot be created *)
OpenLayerFails ==
    /\ pc = "write"
    /\ Caught
    /\ UNCHANGED <<mode, csv_files, exit_code, called, locals, fs>>

(* line 155 raises after the file was created: disk full, I/O error *)
DumpFails ==
    /\ pc = "write"
    /\ fsFiles' = fsFiles \cup {[path |-> layer_filename, content |-> "partial"]}
    /\ Caught
    /\ UNCHANGED <<mode, csv_files, exit_code, called, locals, fsDirs>>

----------------------------------------------------------------------------

Next ==
    \/ MainFile
    \/ MainManual
    \/ MainManualNotFound
    \/ MainReturn
    \/ ProcessStart
    \/ ProcessFileNotFound
    \/ OpenFails
    \/ ReadHeader
    \/ ReadRow
    \/ RowFails
    \/ EndOfRows
    \/ PrepareOutput
    \/ MakeBaseDirFails
    \/ MakeSubfolderFails
    \/ BuildLayerJson
    \/ WriteLayer
    \/ OpenLayerFails
    \/ DumpFails

Spec == Init /\ [][Next]_vars

TypeOK ==
    /\ pc \in {"start", "main", "header", "rows", "gen", "build", "write", "done"}
    /\ exit_code \in {-1, 0, 1}
    /\ Len(layer_json) <= 1

----------------------------------------------------------------------------
(* Properties *)

Files == 1..Len(csv_files)

(* C1: in batch mode, once main has returned, process_mitre_data has been  *)
(* called on every file of the discovered list: no per-file failure stops  *)
(* the files after it from being processed.                                *)
C1_EveryFileProcessed ==
    (pc = "done" /\ mode = "manual" /\ csv_files # <<>>) => called = Files

(* C2: in single-file mode main returns 0 only if the processing of the    *)
(* file raised no exception; every exception gives a non-zero exit code.   *)
C2_ExitCodeReportsFailure ==
    (pc = "done" /\ mode = "file" /\ reported # {}) => exit_code # 0

Required == {required_columns[i] : i \in 1..Len(required_columns)}

TrimmedHeader(row) == {strip(row[i]) : i \in 1..Len(row)}

ColumnsMissing(row) == ~(Required \subseteq TrimmedHeader(row))

AggregatorEmpty ==
    /\ techniques_count = <<>>
    /\ tactics_count = <<>>
    /\ rules_with_mappings = <<>>

(* C3: when the header row, once trimmed, lacks one of title, techniques,  *)
(* subtechniques, reading the header ends the processing of the file: the  *)
(* failure is reported, the count tables and the rule list are empty, no   *)
(* directory or layer file is created; and no row is ever aggregated nor   *)
(* any output produced under such a header.                                *)
C3_MissingColumnsAbort ==
    /\ [](pc \in {"rows", "gen", "build", "write"} => ~ColumnsMissing(header_row))
    /\ [][(pc = "header" /\ header_row' # <<>> /\ ColumnsMissing(header_row'))
            => /\ pc' = "main"
               /\ fi \in reported'
               /\ AggregatorEmpty'
               /\ fsDirs' = fsDirs
               /\ fsFiles' = fsFiles]_vars

C3_Witness ==
    /\ pc = "main"
    /\ fi = 3
    /\ reported = {2}
    /\ header_row = << <<"title">>, <<"techniques">> >>
    /\ AggregatorEmpty
    /\ fsFiles # {}

(* number of comma-separated pieces of a cell that hold a non-blank atom *)
RECURSIVE NTokens(_, _)
NTokens(cell, seen) ==
    IF cell = <<>> THEN (IF seen THEN 1 ELSE 0)
    ELSE IF Head(cell) = ","
         THEN (IF seen THEN 1 ELSE 0) + NTokens(Tail(cell), FALSE)
         ELSE NTokens(Tail(cell), seen \/ Head(cell) \notin Whitespace)

(* 1-based position of a required column in the header row *)
ColumnOf(col) ==
    CHOOSE i \in 1..Len(header_row) :
        /\ strip(header_row[i]) = col
        /\ \A j \in 1..(i - 1) : strip(header_row[j]) # col

(* tokens of a row whose title, techniques, subtechniques cells are at ti, te, su *)
RowTokens(row, ti, te, su) ==
    IF Len(row) >= ti /\ Len(row) >= te /\ Len(row) >= su
    THEN NTokens(row[te], FALSE) + NTokens(row[su], FALSE)
    ELSE 0

RECURSIVE TokensIn(_, _, _, _)
TokensIn(rows, ti, te, su) ==
    IF rows = <<>> THEN 0
    ELSE RowTokens(Head(rows), ti, te, su) + TokensIn(Tail(rows), ti, te, su)

TokensRead(rows) ==
    IF rows = <<>> THEN 0
    ELSE TokensIn(rows, ColumnOf(<<"title">>), ColumnOf(<<"techniques">>),
                  ColumnOf(<<"subtechniques">>))

RECURSIVE TokensRetained(_)
TokensRetained(rules) ==
    IF rules = <<>> THEN 0
    ELSE Len(Head(rules).techniques) + TokensRetained(Tail(rules))

(* C4: the values of the technique count table add up to the number of     *)
(* non-empty trimmed technique tokens of the rows read so far (a token     *)
(* repeated in a row counts each time), which is also the number of        *)
(* techniques held by the retained rules; no key has a count below 1.      *)
C4_TechniqueCountSum ==
    /\ SumOf(DictValues(techniques_count)) = TokensRead(reader)
    /\ SumOf(DictValues(techniques_count)) = TokensRetained(rules_with_mappings)
    /\ \A i \in 1..Len(techniques_count) : techniques_count[i].val >= 1
    /\ \A i, j \in 1..Len(techniques_count) :
          techniques_count[i].key = techniques_count[j].key => i = j

C4_Witness ==
    /\ Len(reader) = 2
    /\ reader[1] = << <<"A", "\n", "B">>, <<"T1", ",", ",", "T1", ",", "T1">>,
                      <<"T1", ",", "T1">> >>
    /\ Len(rules_with_mappings) = 2
    /\ DictGet(techniques_count, <<"T1">>, 0) = 6
    /\ Len(techniques_count) = 3

PrefixBeforeFirstDot(t) ==
    IF \E i \in 1..Len(t) : t[i] = "."
    THEN LET d == CHOOSE i \in 1..Len(t) :
                      t[i] = "." /\ \A j \in 1..(i - 1) : t[j] # "."
         IN  [k \in 1..(d - 1) |-> t[k]]
    ELSE t

(* every technique occurrence of every retained rule: <<rule, position>> *)
Occurrences ==
    UNION {{<<i, j>> : j \in 1..Len(rules_with_mappings[i].techniques)} :
              i \in 1..Len(rules_with_mappings)}

OccurrenceOf(o) == rules_with_mappings[o[1]].techniques[o[2]]

OccurrencesUnder(k) == {o \in Occurrences : PrefixBeforeFirstDot(OccurrenceOf(o)) = k}

(* C5: each technique occurrence is counted in exactly one tactic bucket,  *)
(* the part before its first '.', or itself when it has no '.': no tactic  *)
(* key holds a '.', each tactic count is the number of occurrences with    *)
(* that prefix, and the tactic counts add up to the technique counts.      *)
C5_TacticBuckets ==
    /\ \A i \in 1..Len(tactics_count) :
          /\ ~Contains(tactics_count[i].key, ".")
          /\ tactics_count[i].val = Cardinality(OccurrencesUnder(tactics_count[i].key))
          /\ tactics_count[i].val >= 1
    /\ \A i, j \in 1..Len(tactics_count) :
          tactics_count[i].key = tactics_count[j].key => i = j
    /\ \A o \in Occurrences :
          DictHas(tactics_count, PrefixBeforeFirstDot(OccurrenceOf(o)))
    /\ SumOf(DictValues(tactics_count)) = SumOf(DictValues(techniques_count))

C5_Witness ==
    /\ DictHas(techniques_count, <<"T2", ".", "001", ".", "002">>)
    /\ DictHas(techniques_count, <<".", "001">>)
    /\ DictHas(techniques_count, <<"T1", ".", "001">>)
    /\ DictGet(tactics_count, <<"T2">>, 0) = 2
    /\ DictGet(tactics_count, <<>>, 0) = 1
    /\ DictGet(tactics_count, <<"T1">>, 0) = 2
    /\ ~DictHas(tactics_count, <<"T2", ".", "001">>)

Layer == layer_json[1]

Entries == {Layer.techniques[i] : i \in 1..Len(Layer.techniques)}

EntryValue(e) == e.metadata[1].value

(* names of the retained rules that list tid, in the order they were parsed *)
RECURSIVE NamesUsing(_, _)
NamesUsing(rules, tid) ==
    IF rules = <<>> THEN <<>>
    ELSE (IF \E j \in 1..Len(Head(rules).techniques) : Head(rules).techniques[j] = tid
          THEN <<Head(rules).name>>
          ELSE <<>>)
         \o NamesUsing(Tail(rules), tid)

HasNewline(names) == \E i \in 1..Len(names) : Contains(names[i], "\n")

(* C6 as stated: for every technique entry of the layer, the value of      *)
(* 'Rules Using Technique' split on newline is the list of the names of    *)
(* the retained rules that list the technique, in parsing order.           *)
C6_RulesRoundTrip ==
    LayerBuilt =>
        \A e \in Entries :
            split(EntryValue(e), "\n") = NamesUsing(rules_with_mappings, e.techniqueID)

(* C6 amended: the same, for the entries whose rule names hold no newline; *)
(* every entry names at least one rule.                                    *)
C6_RulesRoundTripNoNewline ==
    LayerBuilt =>
        \A e \in Entries :
            LET names == NamesUsing(rules_with_mappings, e.techniqueID)
            IN  /\ names # <<>>
                /\ ~HasNewline(names) => split(EntryValue(e), "\n") = names

C6_Witness ==
    /\ LayerBuilt
    /\ \E e \in Entries :
          /\ e.techniqueID = <<"T1">>
          /\ e.score = 3
          /\ EntryValue(e) = <<"A", "\n", "T2">>
    /\ \E e \in Entries :
          /\ e.techniqueID = <<"T2", ".", "001">>
          /\ EntryValue(e) = <<"T2">>

TableValues == {techniques_count[i].val : i \in 1..Len(techniques_count)}

(* C7: in a generated layer gradient.maxValue is the largest value of the  *)
(* technique count table, or 1 when the table is empty; it is not 0 and    *)
(* not below the score of any entry; gradient.minValue is 0.               *)
C7_GradientMax ==
    LayerBuilt =>
        /\ Layer.gradient.minValue = 0
        /\ Layer.gradient.maxValue # 0
        /\ techniques_count = <<>> => Layer.gradient.maxValue = 1
        /\ techniques_count # <<>> =>
              /\ Layer.gradient.maxValue \in TableValues
              /\ \A v \in TableValues : Layer.gradient.maxValue >= v
        /\ \A e \in Entries : Layer.gradient.maxValue >= e.score

C7_Witness ==
    /\ LayerBuilt
    /\ Len(Layer.techniques) = 3
    /\ Layer.techniques[1].score = 1
    /\ Layer.techniques[2].score = 1
    /\ Layer.techniques[3].score = 5
    /\ Layer.gradient.maxValue = 5

(* the counters a file gives when it is processed alone, from empty tables *)
RECURSIVE AggregateAlone(_, _, _, _, _)
AggregateAlone(acc, rows, ti, te, su) ==
    IF rows = <<>> THEN acc
    ELSE AggregateAlone(ProcessRow(acc, Head(rows), ti, te, su), Tail(rows), ti, te, su)

Alone ==
    LET hs == StripAll(header_row)
    IN  AggregateAlone([techniques_count |-> <<>>, tactics_count |-> <<>>,
                        rules_with_mappings |-> <<>>],
                       reader,
                       IndexOf(hs, <<"title">>),
                       IndexOf(hs, <<"techniques">>),
                       IndexOf(hs, <<"subtechniques">>))

(* C8: nothing crosses from one file to the next: the tables and the rule  *)
(* list are empty when a file is opened, and the counters, the layer and   *)
(* the statistics of a file are those of that file processed alone.        *)
C8_FreshPerFile ==
    LET alone == Alone
    IN  /\ pc = "header" => AggregatorEmpty
        /\ pc \in {"rows", "gen", "build", "write"} => Counters = alone
        /\ (pc = "write" /\ LayerBuilt) =>
              Layer = BuildLayer(base_name, alone.techniques_count,
                                 alone.rules_with_mappings,
                                 MaxScore(alone.techniques_count))
        /\ stats # <<>> =>
              stats[1] = Statistics(alone.rules_with_mappings,
                                    alone.techniques_count, alone.tactics_count)

C8_Witness ==
    /\ mode = "manual"
    /\ fi = 2
    /\ pc = "write"
    /\ LayerBuilt
    /\ \E f \in fsFiles : f.path.base = splitext_base(csv_files[1])
    /\ Len(techniques_count) = 1
    /\ Len(rules_with_mappings) = 2

FsChanged == fsDirs' # fsDirs \/ fsFiles' # fsFiles

(* C9 as stated: nothing of the output is written to the file system, no   *)
(* directory and no layer file, before the layer is built in memory.       *)
C9_NoWriteBeforeLayerBuilt == [][FsChanged => LayerBuilt]_vars

(* C9 amended: a layer file is created only once the layer is built, and   *)
(* no step of opening, parsing or aggregating a file, failing or not,      *)
(* changes the file system; only the output directory may be created       *)
(* before the layer is built.                                              *)
C9_LayerFileAfterLayerBuilt ==
    [][/\ fsFiles' # fsFiles =>
            /\ pc = "write"
            /\ LayerBuilt
            /\ Layer = BuildLayer(base_name, techniques_count,
                                  rules_with_mappings, MaxScore(techniques_count))
       /\ pc \in {"main", "header", "rows"} => ~FsChanged
       /\ (fsDirs' # fsDirs /\ ~LayerBuilt) => pc = "gen"]_vars

C9_Witness ==
    /\ pc = "main"
    /\ LayerBuilt
    /\ \E f \in fsFiles :
          /\ f.path.base = splitext_base(csv_files[fi - 1])
          /\ f.content = "complete"
    /\ stats # <<>>
    /\ rules_with_mappings # <<>>

HexValue(d) == (CHOOSE i \in 1..Len(Digits) : Digits[i] = d) - 1

RedByte(color) == HexValue(color[2]) * Len(Digits) + HexValue(color[3])

(* C10: an entry of count c >= 1 has the color '#', then min(255, c*50) as *)
(* two lowercase hex digits, then '3333': '32' for 1, 'fa' for 5, 'ff'     *)
(* from 6 on; the red byte never decreases when the count grows.           *)
C10_Color ==
    LayerBuilt =>
        /\ \A e \in Entries :
              /\ e.score >= 1
              /\ Len(e.color) = 7
              /\ e.color[1] = "#"
              /\ SubSeq(e.color, 4, 7) = <<"3", "3", "3", "3">>
              /\ RedByte(e.color) = (IF e.score * 50 > 255 THEN 255 ELSE e.score * 50)
              /\ e.score = 1 => SubSeq(e.color, 2, 3) = <<"3", "2">>
              /\ e.score = 5 => SubSeq(e.color, 2, 3) = <<"f", "a">>
              /\ e.score >= 6 => SubSeq(e.color, 2, 3) = <<"f", "f">>
        /\ \A e1, e2 \in Entries :
              e1.score <= e2.score => RedByte(e1.color) <= RedByte(e2.color)

C10_Witness ==
    /\ LayerBuilt
    /\ \E e \in Entries : e.score = 1 /\ e.color = <<"#", "3", "2", "3", "3", "3", "3">>
    /\ \E e \in Entries : e.score = 7 /\ e.color = <<"#", "f", "f", "3", "3", "3", "3">>

====
